---- MODULE Spec2Model ----
(***************************************************************************)
(* Model of theAgency's pipeline execution engine:                         *)
(*   backend/app/services/pipeline_runner.py  (PipelineRunner, recovery)   *)
(*   backend/app/routers/pipelines.py         (create / abort / restart /  *)
(*                                             approve / reject handlers)  *)
(*   backend/app/main.py                      (lifespan: startup recovery) *)
(*                                                                         *)
(* The persisted rows (Pipeline, Step, Approval, Handoff, AuditEvent) are  *)
(* the "db" variables; the asyncio tasks, the three app.state maps and the *)
(* in-flight request handlers are the in-process variables.  Every await   *)
(* of the code at which another coroutine can change what the claims talk  *)
(* about is a separate program point of the task or handler.               *)
(* Step positions are 1-based here (order_index + 1).                      *)
(***************************************************************************)
EXTENDS Integers, Sequences, FiniteSets, TLC

\* ---------------------------------------------------------------- bounds
MaxSteps  == 3     \* longest template
MaxTasks  == 4     \* execution tasks ever launched (create + restarts + recoveries)
MaxPipes  == 2     \* pipelines
RaceTasks == 3     \* tasks ever launched under SpecRace
MultiSteps == 1    \* longest template under SpecMulti
AbortSteps == 1    \* longest template under SpecAbort
ResumeSteps == 2   \* longest template under SpecResume
ResumeTasks == 2   \* tasks ever launched under SpecResume
MaxReq    == 2     \* request handlers that can be in flight at once
OpsTasks  == 2     \* tasks ever launched under Spec
RaceSteps == 1     \* longest template under SpecRace
OverlapSteps == 2  \* steps of the pipeline under SpecOverlap
GateSteps == 2     \* longest template under SpecGate
GateReq   == 1     \* approve / reject handlers in flight at once under SpecGate
StopSteps == 1     \* longest template under SpecStop
StopTasks == 3     \* tasks ever launched under SpecStop
MaxReaders == 3    \* reader tasks ever created
MaxStops  == 2     \* stop() calls
MaxSubs   == 2     \* observers
QueueCap  == 2     \* capacity of an observer queue (stands for _QUEUE_MAX_SIZE)
MaxFrames == 3     \* frames the upstream sends

Pipes == 1..MaxPipes
\* The specifications about one pipeline create only this one.
First == {1}

\* ---------------------------------------------------------------- values
NoTask == 0
NoEv   == 0
NoSess == 0
NoReader == 0
\* SseBroker.STOP, the shutdown sentinel; frames are numbered from 1.
STOP == 0
ReaderIds == 1..MaxReaders
StopIds == 1..MaxStops
QueueIds == 1..MaxSubs

AGENT == "agent"
APPROVAL_SENTINEL == "__approval__"
Kinds == {AGENT, APPROVAL_SENTINEL}
TemplatesUpTo(n) == UNION {[1..k -> Kinds] : k \in 1..n}
Templates == TemplatesUpTo(MaxSteps)

PipelineStatus == {"running", "waiting_for_approval", "done", "failed"}
StepStatus == {"pending", "running", "done", "failed"}
ApprovalStatus == {"pending", "approved", "rejected"}
Comments == {"none", "note"}

TaskIds == 1..MaxTasks
ReqIds == 1..MaxReq

\* asyncio.Event objects: the one the launcher registers for task t, the one
\* task t synthesizes at a gate, and the pre-set one the decision handler makes.
LaunchEv(t) == t
SynthEv(t) == MaxTasks + t
PresetEv == 2 * MaxTasks + 1

VARIABLES
    pstatus,        \* db: Pipeline.status per pipeline ("none" = no row yet)
    kinds,          \* db: Step.agent_name per position (agent or approval sentinel)
    sstatus,        \* db: Step.status per position
    approvals,      \* db: Approval rows of the pipeline, in id order
    handoffs,       \* db: Handoff rows of the pipeline, in id order
    reminders,      \* db: number of approval_reminder AuditEvents per position
    clock,          \* logical time of decision commits (decided_at)
    tasks,          \* asyncio tasks running _run / _resume, by task id
    nextTask,       \* next unused task id
    pipeline_tasks, \* app.state.pipeline_tasks
    active_runners, \* app.state.active_runners (a runner is named by its task)
    approval_events,\* app.state.approval_events
    evSet,          \* the Event objects that are set
    reqs,           \* in-flight abort / restart / approve / reject handlers
    bcalls,         \* history: positions for which create_session was called
    sent,           \* history: positions for which send_message was called
    btask,          \* SseBroker._task: the reader task it refers to, or none
    readers,        \* the reader tasks (SseBroker._run -> stream_events), by id
    nextReader,     \* next unused reader id
    stop_event,     \* OpenCodeClient._stop_event is set
    subscribers,    \* SseBroker._subscribers: the registered observer queues
    queues,         \* content of each observer queue, oldest first
    obs,            \* the observer of each queue: none yet, reading, ended
    stops,          \* the stop() calls, by caller
    fcount,         \* number of frames the upstream has sent so far
    files,          \* content of the agents and the pipelines YAML file
    config,         \* AgentRegistry._config
    rl,             \* the reload in progress, and how the last one ended
    seen            \* the configuration the last reader call returned

dbvars == <<pstatus, kinds, sstatus, approvals, handoffs, reminders, clock>>
memvars == <<tasks, nextTask, pipeline_tasks, active_runners, approval_events, evSet, reqs>>
histvars == <<bcalls, sent>>
enginevars == <<dbvars, memvars, histvars>>
brokervars == <<btask, readers, nextReader, stop_event, subscribers, queues, obs, stops, fcount>>
regvars == <<files, config, rl, seen>>
sidevars == <<brokervars, regvars>>
vars == <<enginevars, sidevars>>

\* ---------------------------------------------------------------- prompts
\* The text handed to a step, by how it was built: the Pipeline's prompt, the
\* context header rendered from Handoff hid's structured metadata, or Handoff
\* hid's raw content; notes counts the approval notes appended to it.
NoPrompt == [form |-> "none", hid |-> 0, notes |-> 0]
InitialPrompt == [form |-> "initial", hid |-> 0, notes |-> 0]
to_context_header(h) == [form |-> "header", hid |-> h, notes |-> 0]
RawOutput(h) == [form |-> "raw", hid |-> h, notes |-> 0]
\* A gate that drops the approval comment.
KeepPrompt(pr) == pr
AppendNote(pr) == [pr EXCEPT !.notes = @ + 1]
NewHandoff(i, structured) == [step |-> i, structured |-> structured]
\* A resume that always takes the raw content of the Handoff.
RawHandoffPrompt(p, h) == RawOutput(h)
HandoffPrompt(p, h) == IF handoffs[p][h].structured THEN to_context_header(h) ELSE RawOutput(h)

\* ---------------------------------------------------------------- records
\* A task slot nobody uses (not launched yet, or finished and collected).
\* prompt: current_prompt of _execute_steps; first: the prompt of the task's first
\* send_message; log: the positions the task sent a message for, in order;
\* plog: the prompt run_step was given for each of them;
\* aborts / dels: abort_session / delete_session calls of the current run_step;
\* exc: how run_fn was left ("none": still running or returned normally).
FreeTask(pc) ==
    [pid |-> 0, kind |-> "none", pc |-> pc, rem |-> <<>>, idx |-> 0,
     lst |-> "none", sid |-> NoSess, cancel |-> FALSE, out |-> "none",
     ldrun |-> {}, wev |-> NoEv, priv |-> NoEv, tap |-> 0, fault |-> "none",
     prompt |-> NoPrompt, first |-> NoPrompt, log |-> <<>>, aborts |-> 0, dels |-> 0,
     exc |-> "none", plog |-> <<>>]

NewTask(p, kind) == [FreeTask("init") EXCEPT !.pid = p, !.kind = kind]

\* ---------------------------------------------------------------- registry files
\* What yaml.safe_load gives for a file: ok is false for a file that is missing,
\* is not YAML or lacks the mapping; names are the agent names an agents file
\* defines, or the agent names the steps of a pipelines file refer to.
BadFile == [ok |-> FALSE, names |-> {}]
AgentsFile(S) == [ok |-> TRUE, names |-> S]
PipelinesFile(S) == [ok |-> TRUE, names |-> S]
AgentsFiles == {BadFile, AgentsFile({"dev"}), AgentsFile({"dev", "qa"})}
PipelinesFiles == {BadFile, PipelinesFile({"dev"}), PipelinesFile({"qa"})}

\* RegistryConfig.model_validate: both documents parse and every agent step
\* names a known agent.
Validates(a, p) == a.ok /\ p.ok /\ p.names \subseteq a.names
Validated(a, p) == [agents |-> a.names, refs |-> p.names]

\* A reader slot: pc is where the task is (new: created, not run yet; open:
\* awaiting the next line of the stream; sleep: in the reconnect delay), end is
\* how it finished.
FreeReader == [pc |-> "unused", cancel |-> FALSE, end |-> "none"]
IdleStop == [pc |-> "idle", tgt |-> NoReader]

IdleReq == [kind |-> "idle", pid |-> 0, tgt |-> 0, decision |-> "none", comment |-> "none"]
Req(kind, p, tgt, decision, comment) ==
    [kind |-> kind, pid |-> p, tgt |-> tgt, decision |-> decision, comment |-> comment]

Init ==
    /\ pstatus = [p \in Pipes |-> "none"]
    /\ kinds = [p \in Pipes |-> <<>>]
    /\ sstatus = [p \in Pipes |-> <<>>]
    /\ approvals = [p \in Pipes |-> <<>>]
    /\ handoffs = [p \in Pipes |-> <<>>]
    /\ reminders = [p \in Pipes |-> <<>>]
    /\ clock = 0
    /\ tasks = [t \in TaskIds |-> FreeTask("unused")]
    /\ nextTask = 1
    /\ pipeline_tasks = [p \in Pipes |-> NoTask]
    /\ active_runners = [p \in Pipes |-> NoTask]
    /\ approval_events = [p \in Pipes |-> NoEv]
    /\ evSet = {}
    /\ reqs = [r \in ReqIds |-> IdleReq]
    /\ bcalls = [p \in Pipes |-> {}]
    /\ sent = [p \in Pipes |-> {}]
    /\ btask = NoReader
    /\ readers = [k \in ReaderIds |-> FreeReader]
    /\ nextReader = 1
    /\ stop_event = FALSE
    /\ subscribers = {}
    /\ queues = [q \in QueueIds |-> <<>>]
    /\ obs = [q \in QueueIds |-> "none"]
    /\ stops = [s \in StopIds |-> IdleStop]
    /\ fcount = 0
    /\ files = [agents |-> AgentsFile({"dev"}), pipelines |-> PipelinesFile({"dev"})]
    /\ config = Validated(AgentsFile({"dev"}), PipelinesFile({"dev"}))
    /\ rl = [pc |-> "idle", agents |-> BadFile, last |-> "ok"]
    /\ seen = Validated(AgentsFile({"dev"}), PipelinesFile({"dev"}))

\* ---------------------------------------------------------------- helpers
NSteps(p) == Len(kinds[p])
Pos(p) == 1..NSteps(p)

\* The positions i, i+1, ... of pipeline p, in order, whose Step status is not st.
RECURSIVE SelectPos(_, _, _)
SelectPos(p, i, st) ==
    IF i > NSteps(p) THEN <<>>
    ELSE IF sstatus[p][i] # st THEN <<i>> \o SelectPos(p, i + 1, st)
    ELSE SelectPos(p, i + 1, st)

\* resume_pipeline's scan for the prompt: over the steps in position order, every
\* done step that has Handoffs replaces the prompt by the one of its latest
\* (highest id) Handoff.
HandoffsOf(p, i) == {h \in DOMAIN handoffs[p] : handoffs[p][h].step = i}
LatestHandoff(p, i) == CHOOSE h \in HandoffsOf(p, i) : \A g \in HandoffsOf(p, i) : g <= h
RECURSIVE ResumeScan(_, _, _)
ResumeScan(p, i, cur) ==
    IF i > NSteps(p) THEN cur
    ELSE IF sstatus[p][i] = "done" /\ HandoffsOf(p, i) # {}
         THEN ResumeScan(p, i + 1, HandoffPrompt(p, LatestHandoff(p, i)))
         ELSE ResumeScan(p, i + 1, cur)
ResumePrompt(p) == ResumeScan(p, 1, InitialPrompt)

\* A commit of `pipeline.status = new` by task t: SQLAlchemy emits the UPDATE
\* only when the value differs from the one the task's session holds.
PWrite(t, new) ==
    IF tasks[t].lst # new THEN [pstatus EXCEPT ![tasks[t].pid] = new] ELSE pstatus

\* The same for `step.status = running`: no UPDATE when the row was loaded as running.
SBegin(t, i) ==
    IF i \in tasks[t].ldrun THEN sstatus ELSE [sstatus EXCEPT ![tasks[t].pid][i] = "running"]

\* The step the task is at.
Cur(t) == tasks[t].rem[tasks[t].idx]
AtStep(t) == tasks[t].idx >= 1 /\ tasks[t].idx <= Len(tasks[t].rem)

\* ---------------------------------------------------------------- create
\* The server takes requests until the lifespan shutdown has begun.
Serving == \A r \in ReqIds : reqs[r].kind # "shutdown"

\* POST /pipelines: rows committed as running/pending, Event registered, task launched.
create_pipeline(p, tpl) ==
    /\ Serving
    /\ pstatus[p] = "none"
    /\ nextTask <= MaxTasks
    /\ pstatus' = [pstatus EXCEPT ![p] = "running"]
    /\ kinds' = [kinds EXCEPT ![p] = tpl]
    /\ sstatus' = [sstatus EXCEPT ![p] = [i \in DOMAIN tpl |-> "pending"]]
    /\ handoffs' = [handoffs EXCEPT ![p] = <<>>]
    /\ reminders' = [reminders EXCEPT ![p] = [i \in DOMAIN tpl |-> 0]]
    /\ approval_events' = [approval_events EXCEPT ![p] = LaunchEv(nextTask)]
    /\ evSet' = evSet \ {LaunchEv(nextTask)}
    /\ tasks' = [tasks EXCEPT ![nextTask] = NewTask(p, "create")]
    /\ pipeline_tasks' = [pipeline_tasks EXCEPT ![p] = nextTask]
    /\ nextTask' = nextTask + 1
    /\ UNCHANGED <<sidevars, approvals, clock, active_runners, reqs, histvars>>


\* ---------------------------------------------------------------- task entry
Runnable(t) == tasks[t].pc \notin {"unused", "dead"} /\ ~tasks[t].cancel

\* A resume that takes every step again, whatever its status.
task_start_reruns(t) ==
    LET p == tasks[t].pid IN
    /\ Runnable(t)
    /\ tasks[t].pc = "init"
    /\ active_runners' = IF tasks[t].kind = "recover" THEN active_runners
                         ELSE [active_runners EXCEPT ![p] = t]
    /\ tasks' = [tasks EXCEPT ![t].rem = [i \in 1..NSteps(p) |-> i],
                              ![t].idx = 1,
                              ![t].prompt = InitialPrompt,
                              ![t].ldrun = {i \in 1..NSteps(p) : sstatus[p][i] = "running"},
                              ![t].lst = pstatus[p],
                              ![t].pc = "loop"]
    /\ UNCHANGED <<sidevars, dbvars, nextTask, pipeline_tasks, approval_events, evSet, reqs, histvars>>

\* _run / _resume up to the first step: fetch the Pipeline row in a fresh session,
\* register the runner (not for a recovery task), load the steps.  run_pipeline
\* takes every step, resume_pipeline the steps that are not done; with none left
\* it commits status done at once.
task_start(t) ==
    LET p == tasks[t].pid
        loaded == pstatus[p]
        rem == IF tasks[t].kind = "create"
               THEN [i \in 1..NSteps(p) |-> i]
               ELSE SelectPos(p, 1, "done")
        alldone == tasks[t].kind # "create" /\ rem = <<>>
    IN
    /\ Runnable(t)
    /\ tasks[t].pc = "init"
    /\ active_runners' = IF tasks[t].kind = "recover" THEN active_runners
                         ELSE [active_runners EXCEPT ![p] = t]
    /\ tasks' = [tasks EXCEPT ![t].rem = rem,
                              ![t].idx = 1,
                              ![t].prompt = IF tasks[t].kind = "create" THEN InitialPrompt
                                            ELSE ResumePrompt(p),
                              ![t].ldrun = {i \in 1..NSteps(p) : sstatus[p][i] = "running"},
                              ![t].lst = IF alldone THEN "done" ELSE loaded,
                              ![t].pc = IF alldone THEN "exit" ELSE "loop"]
    /\ pstatus' = IF alldone /\ loaded # "done" THEN [pstatus EXCEPT ![p] = "done"] ELSE pstatus
    /\ UNCHANGED <<sidevars, kinds, sstatus, approvals, handoffs, reminders, clock, nextTask,
                   pipeline_tasks, approval_events, evSet, reqs, histvars>>

\* ---------------------------------------------------------------- _execute_steps
\* All steps of the run completed: pipeline.status = done, commit.
finish(t) ==
    /\ Runnable(t)
    /\ tasks[t].pc = "loop"
    /\ tasks[t].idx > Len(tasks[t].rem)
    /\ pstatus' = PWrite(t, "done")
    /\ tasks' = [tasks EXCEPT ![t].lst = "done", ![t].pc = "exit"]
    /\ UNCHANGED <<sidevars, kinds, sstatus, approvals, handoffs, reminders, clock, nextTask,
                   pipeline_tasks, active_runners, approval_events, evSet, reqs, histvars>>

\* Agent step: step.status = running, commit.
step_begin(t) ==
    /\ Runnable(t)
    /\ tasks[t].pc = "loop"
    /\ AtStep(t)
    /\ kinds[tasks[t].pid][Cur(t)] = AGENT
    /\ sstatus' = SBegin(t, Cur(t))
    /\ tasks' = [tasks EXCEPT ![t].pc = "resolve"]
    /\ UNCHANGED <<sidevars, pstatus, kinds, approvals, handoffs, reminders, clock, nextTask,
                   pipeline_tasks, active_runners, approval_events, evSet, reqs, histvars>>

\* _mark_pipeline_failed(pipeline, step) / _mark_pipeline_failed(pipeline)
MarkStepFailed(t) == [sstatus EXCEPT ![tasks[t].pid][Cur(t)] = "failed"]

\* registry.get_agent returns None: step and pipeline failed, return.
unknown_agent(t) ==
    /\ Runnable(t)
    /\ tasks[t].pc = "resolve"
    /\ sstatus' = MarkStepFailed(t)
    /\ pstatus' = PWrite(t, "failed")
    /\ tasks' = [tasks EXCEPT ![t].lst = "failed", ![t].pc = "exit", ![t].fault = "unknown_agent"]
    /\ UNCHANGED <<sidevars, kinds, approvals, handoffs, reminders, clock, nextTask,
                   pipeline_tasks, active_runners, approval_events, evSet, reqs, histvars>>

\* The guard around run_fn in _run (only when the status the task holds is not
\* terminal) and the one in _resume (always): status failed, commit.
GuardWrites(t) == tasks[t].kind = "recover" \/ tasks[t].lst \notin {"done", "failed"}
OuterGuard(t) == IF GuardWrites(t) THEN PWrite(t, "failed") ELSE pstatus
GuardLst(t) == IF GuardWrites(t) THEN "failed" ELSE tasks[t].lst

\* ---------------------------------------------------------------- run_step
\* create_session succeeds: the session id becomes current and send_message is issued.
create_session_ok(t) ==
    /\ Runnable(t)
    /\ tasks[t].pc = "resolve"
    /\ tasks' = [tasks EXCEPT ![t].sid = Cur(t), ![t].pc = "send",
                              ![t].first = IF @ = NoPrompt THEN tasks[t].prompt ELSE @,
                              ![t].log = Append(@, Cur(t)),
                              ![t].plog = Append(@, tasks[t].prompt),
                              ![t].aborts = 0, ![t].dels = 0]
    /\ bcalls' = [bcalls EXCEPT ![tasks[t].pid] = @ \cup {Cur(t)}]
    /\ sent' = [sent EXCEPT ![tasks[t].pid] = @ \cup {Cur(t)}]
    /\ UNCHANGED <<sidevars, dbvars, nextTask, pipeline_tasks, active_runners, approval_events, evSet, reqs>>

\* create_session raises: it is called before the try of run_step, so the error
\* leaves run_step, _execute_steps and run_pipeline and reaches the outer guard.
create_session_err(t) ==
    /\ Runnable(t)
    /\ tasks[t].pc = "resolve"
    /\ pstatus' = OuterGuard(t)
    /\ tasks' = [tasks EXCEPT ![t].lst = GuardLst(t), ![t].pc = "exit",
                              ![t].fault = "create_session", ![t].exc = "error"]
    /\ bcalls' = [bcalls EXCEPT ![tasks[t].pid] = @ \cup {Cur(t)}]
    /\ UNCHANGED <<sidevars, kinds, sstatus, approvals, handoffs, reminders, clock, nextTask,
                   pipeline_tasks, active_runners, approval_events, evSet, reqs, sent>>

\* The reply arrives: _persist_success commits Handoff + step done (structured:
\* the extractor found a HandoffSchema, stored as metadata_json); the finally
\* clears the current session id and calls delete_session.  The next prompt is
\* the schema's context header, or the raw output without a schema.
send_ok(t, structured) ==
    LET p == tasks[t].pid
        h == Len(handoffs[p]) + 1
    IN
    /\ Runnable(t)
    /\ tasks[t].pc = "send"
    /\ sstatus' = [sstatus EXCEPT ![p][Cur(t)] = "done"]
    /\ handoffs' = [handoffs EXCEPT ![p] = Append(@, NewHandoff(Cur(t), structured))]
    /\ tasks' = [tasks EXCEPT ![t].sid = NoSess, ![t].pc = "del", ![t].out = "ok",
                              ![t].dels = @ + 1,
                              ![t].prompt = IF structured THEN to_context_header(h)
                                            ELSE RawOutput(h)]
    /\ UNCHANGED <<sidevars, pstatus, kinds, approvals, reminders, clock, nextTask,
                   pipeline_tasks, active_runners, approval_events, evSet, reqs, histvars>>

\* send_message raises OpenCodeClientError: _persist_failure commits step failed.
send_client_error(t) ==
    /\ Runnable(t)
    /\ tasks[t].pc = "send"
    /\ sstatus' = MarkStepFailed(t)
    /\ tasks' = [tasks EXCEPT ![t].sid = NoSess, ![t].pc = "del", ![t].out = "fail",
                              ![t].fault = "send_message", ![t].dels = @ + 1]
    /\ UNCHANGED <<sidevars, pstatus, kinds, approvals, handoffs, reminders, clock, nextTask,
                   pipeline_tasks, active_runners, approval_events, evSet, reqs, histvars>>

\* wait_for times out: the handler awaits abort_session with the session still current.
send_timeout(t) ==
    /\ Runnable(t)
    /\ tasks[t].pc = "send"
    /\ tasks' = [tasks EXCEPT ![t].pc = "abort", ![t].fault = "timeout", ![t].aborts = @ + 1]
    /\ UNCHANGED <<sidevars, dbvars, nextTask, pipeline_tasks, active_runners, approval_events,
                   evSet, reqs, histvars>>

\* abort_session returns: _persist_failure commits step failed.
abort_ok(t) ==
    /\ Runnable(t)
    /\ tasks[t].pc = "abort"
    /\ sstatus' = MarkStepFailed(t)
    /\ tasks' = [tasks EXCEPT ![t].sid = NoSess, ![t].pc = "del", ![t].out = "fail",
                              ![t].dels = @ + 1]
    /\ UNCHANGED <<sidevars, pstatus, kinds, approvals, handoffs, reminders, clock, nextTask,
                   pipeline_tasks, active_runners, approval_events, evSet, reqs, histvars>>

\* abort_session raises inside the except TimeoutError handler: nothing is
\* persisted and the error leaves run_step through the finally.
abort_err(t) ==
    /\ Runnable(t)
    /\ tasks[t].pc = "abort"
    /\ tasks' = [tasks EXCEPT ![t].sid = NoSess, ![t].pc = "del", ![t].out = "raise",
                              ![t].fault = "timeout_abort_failed", ![t].dels = @ + 1]
    /\ UNCHANGED <<sidevars, dbvars, nextTask, pipeline_tasks, active_runners, approval_events,
                   evSet, reqs, histvars>>

\* run_step is left with outcome o: "ok" goes on with the next step, "fail" is a
\* StepExecutionError caught by _execute_steps (pipeline failed, return), "raise"
\* any other error (it reaches the outer guard), "cancelled" the CancelledError
\* that is still propagating.
RunStepExit(t, o) ==
    /\ Runnable(t)
    /\ tasks[t].pc = "del"
    /\ pstatus' = CASE o = "fail" -> PWrite(t, "failed")
                    [] o = "raise" -> OuterGuard(t)
                    [] OTHER -> pstatus
    /\ tasks' = [tasks EXCEPT
                   ![t].lst = CASE o = "fail" -> "failed"
                                [] o = "raise" -> GuardLst(t)
                                [] OTHER -> @,
                   ![t].idx = IF o = "ok" THEN @ + 1 ELSE @,
                   ![t].pc = IF o = "ok" THEN "loop" ELSE "exit",
                   ![t].exc = CASE o = "raise" -> "error"
                                [] o = "cancelled" -> "cancelled"
                                [] OTHER -> @,
                   ![t].out = "none"]
    /\ UNCHANGED <<sidevars, kinds, sstatus, approvals, handoffs, reminders, clock, nextTask,
                   pipeline_tasks, active_runners, approval_events, evSet, reqs, histvars>>

\* A delete_session whose failure is raised instead of logged.
delete_session_escalates(t, ok) == RunStepExit(t, IF ok THEN tasks[t].out ELSE "raise")

\* The delete_session awaited in the finally of run_step returns (ok) or raises
\* (~ok: logged only), and run_step is left with the outcome it had.
delete_session(t, ok) == RunStepExit(t, tasks[t].out)

\* ---------------------------------------------------------------- _execute_approval_step
NewApproval(i) == [step |-> i, status |-> "pending", comment |-> "none", by |-> 0, at |-> 0]

\* The dict the runner looks its Event up in: app.state.approval_events for a
\* task launched by create/restart, a private empty dict for a recovery task.
RunnerEvent(t) == IF tasks[t].kind = "recover" THEN tasks[t].priv ELSE approval_events[tasks[t].pid]

\* Gate step: step running, Approval pending, pipeline waiting_for_approval in one
\* commit; then the Event is looked up, or synthesized and stored when missing.
\* remind: the template step's remind_after_hours is set (run_pipeline only;
\* resume_pipeline passes no template).
gate_enter(t, remind) ==
    LET p == tasks[t].pid
        found == RunnerEvent(t)
        ev == IF found = NoEv THEN SynthEv(t) ELSE found
    IN
    /\ Runnable(t)
    /\ tasks[t].pc = "loop"
    /\ AtStep(t)
    /\ kinds[p][Cur(t)] = APPROVAL_SENTINEL
    /\ remind => tasks[t].kind = "create"
    /\ sstatus' = SBegin(t, Cur(t))
    /\ approvals' = [approvals EXCEPT ![p] = Append(@, NewApproval(Cur(t)))]
    /\ pstatus' = PWrite(t, "waiting_for_approval")
    /\ approval_events' = IF found = NoEv /\ tasks[t].kind # "recover"
                          THEN [approval_events EXCEPT ![p] = ev] ELSE approval_events
    /\ evSet' = IF found = NoEv THEN evSet \ {ev} ELSE evSet
    /\ tasks' = [tasks EXCEPT ![t].lst = "waiting_for_approval",
                              ![t].tap = Len(approvals[p]) + 1,
                              ![t].wev = ev,
                              ![t].priv = IF tasks[t].kind = "recover" THEN ev ELSE @,
                              ![t].pc = IF remind THEN "wait_timed" ELSE "wait"]
    /\ UNCHANGED <<sidevars, kinds, handoffs, reminders, clock, nextTask, pipeline_tasks,
                   active_runners, reqs, histvars>>

\* A timer that is re-armed after it fired (the wait stays a timed wait).
reminder_fires_rearmed(t) ==
    /\ Runnable(t)
    /\ tasks[t].pc = "wait_timed"
    /\ tasks[t].wev \notin evSet
    /\ reminders' = [reminders EXCEPT ![tasks[t].pid][Cur(t)] = @ + 1]
    /\ UNCHANGED <<sidevars, pstatus, kinds, sstatus, approvals, handoffs, clock, tasks, nextTask,
                   pipeline_tasks, active_runners, approval_events, evSet, reqs, histvars>>

\* The reminder timer elapses before the Event is set: approval_reminder audit
\* event committed, then event.wait() without timeout.
reminder_fires(t) ==
    /\ Runnable(t)
    /\ tasks[t].pc = "wait_timed"
    /\ tasks[t].wev \notin evSet
    /\ reminders' = [reminders EXCEPT ![tasks[t].pid][Cur(t)] = @ + 1]
    /\ tasks' = [tasks EXCEPT ![t].pc = "wait"]
    /\ UNCHANGED <<sidevars, pstatus, kinds, sstatus, approvals, handoffs, clock, nextTask,
                   pipeline_tasks, active_runners, approval_events, evSet, reqs, histvars>>

\* event.wait() returns: refresh the Approval and act on its status.
gate_wake(t) ==
    LET p == tasks[t].pid
        st == approvals[p][tasks[t].tap].status
    IN
    /\ Runnable(t)
    /\ tasks[t].pc \in {"wait", "wait_timed"}
    /\ tasks[t].wev \in evSet
    /\ sstatus' = [sstatus EXCEPT ![p][Cur(t)] = IF st = "approved" THEN "done" ELSE "failed"]
    /\ pstatus' = PWrite(t, IF st = "approved" THEN "running" ELSE "failed")
    /\ tasks' = [tasks EXCEPT
                   ![t].lst = IF st = "approved" THEN "running" ELSE "failed",
                   ![t].idx = IF st = "approved" THEN @ + 1 ELSE @,
                   ![t].pc = IF st = "approved" THEN "loop" ELSE "exit",
                   ![t].prompt = IF st = "approved" /\ approvals[p][tasks[t].tap].comment # "none"
                                 THEN AppendNote(@) ELSE @,
                   ![t].fault = CASE st = "approved" -> @
                                  [] st = "rejected" -> "rejected"
                                  [] OTHER -> "unexpected_status"]
    /\ UNCHANGED <<sidevars, kinds, approvals, handoffs, reminders, clock, nextTask, pipeline_tasks,
                   active_runners, approval_events, evSet, reqs, histvars>>

\* ---------------------------------------------------------------- task exit
\* The finally of _run: both pops are by pipeline id, whoever owns the entries.
\* _resume has no such finally.
run_finally(t) ==
    LET p == tasks[t].pid IN
    /\ tasks[t].pc = "exit"
    /\ active_runners' = IF tasks[t].kind = "recover" THEN active_runners
                         ELSE [active_runners EXCEPT ![p] = NoTask]
    /\ approval_events' = IF tasks[t].kind = "recover" THEN approval_events
                          ELSE [approval_events EXCEPT ![p] = NoEv]
    /\ tasks' = [tasks EXCEPT ![t].pc = "closing", ![t].cancel = FALSE]
    /\ UNCHANGED <<sidevars, dbvars, nextTask, pipeline_tasks, evSet, reqs, histvars>>

\* The task is done; its done-callback pops pipeline_tasks by pipeline id.
done_callback(t) ==
    /\ tasks[t].pc = "closing"
    /\ pipeline_tasks' = [pipeline_tasks EXCEPT ![tasks[t].pid] = NoTask]
    /\ tasks' = [tasks EXCEPT ![t] = FreeTask("dead")]
    /\ UNCHANGED <<sidevars, dbvars, nextTask, active_runners, approval_events, evSet, reqs, histvars>>

\* A cancellation that leaves the session id in place (no finally in run_step).
cancelled_keeps_session(t) ==
    LET pc == tasks[t].pc IN
    /\ tasks[t].cancel
    /\ pc \in {"init", "loop", "resolve", "send", "abort", "del", "wait", "wait_timed"}
    /\ tasks' = [tasks EXCEPT
                   ![t].cancel = FALSE,
                   ![t].exc = "cancelled",
                   ![t].pc = IF pc = "init" THEN "closing" ELSE "exit"]
    /\ UNCHANGED <<sidevars, dbvars, nextTask, pipeline_tasks, active_runners, approval_events,
                   evSet, reqs, histvars>>

\* task.cancel() was called: CancelledError is raised at the await the task is
\* suspended in.  Inside the try of run_step the finally runs (session id
\* cleared, delete_session awaited); a task that never started runs no finally.
cancelled(t) ==
    LET pc == tasks[t].pc IN
    /\ tasks[t].cancel
    /\ pc \in {"init", "loop", "resolve", "send", "abort", "del", "wait", "wait_timed"}
    /\ tasks' = [tasks EXCEPT
                   ![t].cancel = FALSE,
                   ![t].sid = NoSess,
                   ![t].out = IF pc \in {"send", "abort"} THEN "cancelled" ELSE "none",
                   ![t].dels = IF pc \in {"send", "abort"} THEN @ + 1 ELSE @,
                   ![t].exc = IF pc \in {"send", "abort"} THEN @ ELSE "cancelled",
                   ![t].pc = CASE pc = "init" -> "closing"
                               [] pc \in {"send", "abort"} -> "del"
                               [] OTHER -> "exit"]
    /\ UNCHANGED <<sidevars, dbvars, nextTask, pipeline_tasks, active_runners, approval_events,
                   evSet, reqs, histvars>>

Engine(t) ==
    \/ task_start(t)
    \/ finish(t)
    \/ step_begin(t)
    \/ unknown_agent(t)
    \/ create_session_ok(t)
    \/ create_session_err(t)
    \/ \E structured \in BOOLEAN : send_ok(t, structured)
    \/ send_client_error(t)
    \/ send_timeout(t)
    \/ abort_ok(t)
    \/ abort_err(t)
    \/ \E ok \in BOOLEAN : delete_session(t, ok)
    \/ \E remind \in BOOLEAN : gate_enter(t, remind)
    \/ reminder_fires(t)
    \/ gate_wake(t)
    \/ run_finally(t)
    \/ done_callback(t)


\* ---------------------------------------------------------------- launch
\* restart_pipeline / recovery: a fresh task for pipeline p under task id t.
\* _launch_pipeline_background_task registers the task by pipeline id.
Launched(tk, p, t, kind) == [tk EXCEPT ![t] = NewTask(p, kind)]

\* ---------------------------------------------------------------- abort
\* An abort that cancels every task that is still running.
CancelEveryTask(p) ==
    [t \in TaskIds |->
        IF tasks[t].pc \in {"init", "loop", "resolve", "send", "abort", "del", "wait", "wait_timed"}
        THEN [tasks[t] EXCEPT !.cancel = TRUE]
        ELSE tasks[t]]

\* task.cancel() on the task registered for p (if any, and not done), then
\* pipeline.status = failed, commit.
CancelTask(p) ==
    LET t == pipeline_tasks[p] IN
    IF t # NoTask /\ tasks[t].pc \in {"init", "loop", "resolve", "send", "abort", "del", "wait", "wait_timed"}
    THEN [tasks EXCEPT ![t].cancel = TRUE]
    ELSE tasks

\* POST /abort, up to its first await after the status check: 409 unless the
\* status read is running; with a session in flight the handler awaits
\* client.abort_session first, otherwise it cancels and commits at once.
abort_pipeline_read(r, p) ==
    LET runner == active_runners[p]
        inflight == runner # NoTask /\ tasks[runner].sid # NoSess
    IN
    /\ reqs[r].kind = "idle"
    /\ pstatus[p] = "running"
    /\ reqs' = IF inflight THEN [reqs EXCEPT ![r] = Req("abort", p, runner, "none", "none")] ELSE reqs
    /\ tasks' = IF inflight THEN tasks ELSE CancelTask(p)
    /\ pstatus' = IF inflight THEN pstatus ELSE [pstatus EXCEPT ![p] = "failed"]
    /\ UNCHANGED <<sidevars, kinds, sstatus, approvals, handoffs, reminders, clock, nextTask,
                   pipeline_tasks, active_runners, approval_events, evSet, histvars>>

\* abort_session returned (or failed: logged only): cancel the task, commit failed.
abort_pipeline_finish(r) ==
    LET p == reqs[r].pid IN
    /\ reqs[r].kind = "abort"
    /\ tasks' = CancelTask(p)
    /\ pstatus' = [pstatus EXCEPT ![p] = "failed"]
    /\ reqs' = [reqs EXCEPT ![r] = IdleReq]
    /\ UNCHANGED <<sidevars, kinds, sstatus, approvals, handoffs, reminders, clock, nextTask,
                   pipeline_tasks, active_runners, approval_events, evSet, histvars>>

\* ---------------------------------------------------------------- restart
PendingRestarts == Cardinality({r \in ReqIds : reqs[r].kind = "restart"})

\* POST /restart: the status check (409 unless failed).
restart_pipeline_read(r, p, lim) ==
    /\ reqs[r].kind = "idle"
    /\ pstatus[p] = "failed"
    /\ nextTask + PendingRestarts <= lim
    /\ reqs' = [reqs EXCEPT ![r] = Req("restart", p, 0, "none", "none")]
    /\ UNCHANGED <<sidevars, dbvars, tasks, nextTask, pipeline_tasks, active_runners,
                   approval_events, evSet, histvars>>

\* status running committed; a fresh Event registered; resume task launched.
restart_pipeline_launch(r) ==
    LET p == reqs[r].pid IN
    /\ reqs[r].kind = "restart"
    /\ nextTask <= MaxTasks
    /\ pstatus' = [pstatus EXCEPT ![p] = "running"]
    /\ approval_events' = [approval_events EXCEPT ![p] = LaunchEv(nextTask)]
    /\ evSet' = evSet \ {LaunchEv(nextTask)}
    /\ tasks' = Launched(tasks, p, nextTask, "restart")
    /\ pipeline_tasks' = [pipeline_tasks EXCEPT ![p] = nextTask]
    /\ nextTask' = nextTask + 1
    /\ reqs' = [reqs EXCEPT ![r] = IdleReq]
    /\ UNCHANGED <<sidevars, kinds, sstatus, approvals, handoffs, reminders, clock, active_runners, histvars>>

\* ---------------------------------------------------------------- approve / reject
PendingApprovals(p) == {a \in DOMAIN approvals[p] : approvals[p][a].status = "pending"}

\* _handle_approval_decision, the reads: 409 unless waiting_for_approval; the
\* pending Approval of the pipeline (scalar_one_or_none: 404 with none, an error
\* with more than one).
decision_read(r, p, decision, comment) ==
    /\ reqs[r].kind = "idle"
    /\ pstatus[p] = "waiting_for_approval"
    /\ Cardinality(PendingApprovals(p)) = 1
    /\ reqs' = [reqs EXCEPT ![r] = Req("decide", p, CHOOSE a \in PendingApprovals(p) : TRUE,
                                       decision, comment)]
    /\ UNCHANGED <<sidevars, dbvars, tasks, nextTask, pipeline_tasks, active_runners,
                   approval_events, evSet, histvars>>

\* the write: the Approval row gets the decision; commit; the Event of the
\* pipeline is set, or a pre-set one is stored when the map has none.
decision_write(r) ==
    LET p == reqs[r].pid
        a == reqs[r].tgt
    IN
    /\ reqs[r].kind = "decide"
    /\ approvals' = [approvals EXCEPT ![p][a] =
                       [step |-> @.step, status |-> reqs[r].decision,
                        comment |-> reqs[r].comment, by |-> r, at |-> clock + 1]]
    /\ clock' = clock + 1
    /\ approval_events' = IF approval_events[p] = NoEv
                          THEN [approval_events EXCEPT ![p] = PresetEv] ELSE approval_events
    /\ evSet' = evSet \cup {IF approval_events[p] = NoEv THEN PresetEv ELSE approval_events[p]}
    /\ reqs' = [reqs EXCEPT ![r] = IdleReq]
    /\ UNCHANGED <<sidevars, pstatus, kinds, sstatus, handoffs, reminders, tasks, nextTask,
                   pipeline_tasks, active_runners, histvars>>

\* ---------------------------------------------------------------- crash and startup
\* A recovery that picks up every Pipeline there is.
ExistingPipes == {p \in Pipes : pstatus[p] # "none"}
RunningPipes == {p \in Pipes : pstatus[p] = "running"}
Rank(p) == Cardinality({q \in RunningPipes : q < p})

\* The process dies and starts again: tasks, maps, Events and handlers are gone,
\* the rows stay.  lifespan then calls recover_interrupted_pipelines: one _resume
\* task per Pipeline whose status is running, registered in pipeline_tasks.
crash_recover(lim) ==
    /\ \E p \in Pipes : pstatus[p] # "none"
    /\ nextTask + PendingRestarts + Cardinality(RunningPipes) <= lim + 1
    /\ tasks' = [t \in TaskIds |->
                   IF \E p \in RunningPipes : t = nextTask + Rank(p)
                   THEN NewTask(CHOOSE p \in RunningPipes : t = nextTask + Rank(p), "recover")
                   ELSE IF tasks[t].pc = "unused" THEN tasks[t] ELSE FreeTask("dead")]
    /\ nextTask' = nextTask + Cardinality(RunningPipes)
    /\ pipeline_tasks' = [p \in Pipes |-> IF p \in RunningPipes THEN nextTask + Rank(p) ELSE NoTask]
    /\ active_runners' = [p \in Pipes |-> NoTask]
    /\ approval_events' = [p \in Pipes |-> NoEv]
    /\ evSet' = {}
    /\ reqs' = [r \in ReqIds |-> IdleReq]
    /\ UNCHANGED <<sidevars, dbvars, histvars>>

\* ---------------------------------------------------------------- shutdown
\* The coroutines a task.cancel() still reaches (the task is not done).
InFlight(t) == tasks[t].pc \in {"init", "loop", "resolve", "send", "abort", "del", "wait", "wait_timed"}
Registered(t) == \E p \in Pipes : pipeline_tasks[p] = t

\* lifespan after the yield: task.cancel() on every task in
\* app.state.pipeline_tasks, then gather on them.  The server serves no request
\* any more: the shutdown occupies the handler slot.
lifespan_shutdown ==
    /\ \A r \in ReqIds : reqs[r].kind = "idle"
    /\ \E p \in Pipes : pstatus[p] # "none"
    /\ tasks' = [t \in TaskIds |->
                   IF Registered(t) /\ InFlight(t) THEN [tasks[t] EXCEPT !.cancel = TRUE]
                   ELSE tasks[t]]
    /\ reqs' = [r \in ReqIds |-> Req("shutdown", 0, 0, "none", "none")]
    /\ UNCHANGED <<sidevars, dbvars, nextTask, pipeline_tasks, active_runners, approval_events,
                   evSet, histvars>>

\* gather returned (every registered task is done): the process exits, and the
\* next start runs recover_interrupted_pipelines.
GatherDone == \A p \in Pipes : pipeline_tasks[p] # NoTask => tasks[pipeline_tasks[p]].pc \in {"closing", "dead"}
lifespan_exit(lim) ==
    /\ reqs[1].kind = "shutdown"
    /\ GatherDone
    /\ crash_recover(lim)

\* ---------------------------------------------------------------- SSE broker
ReaderAlive(k) == readers[k].pc \notin {"unused", "done"}
ReaderEnds(k, how) == [readers EXCEPT ![k] = [pc |-> "done", cancel |-> FALSE, end |-> how]]

\* SseBroker.start: nothing while the task it refers to is not done, otherwise a
\* new reader task is created and referred to.
start ==
    IF btask # NoReader /\ readers[btask].pc # "done"
    THEN UNCHANGED vars
    ELSE /\ nextReader <= MaxReaders
         /\ readers' = [readers EXCEPT ![nextReader].pc = "new"]
         /\ btask' = nextReader
         /\ nextReader' = nextReader + 1
         /\ UNCHANGED <<enginevars, regvars, stop_event, subscribers, queues, obs, stops, fcount>>

\* The sentinel put on every registered queue, QueueFull suppressed.
PutStop == [q \in QueueIds |->
              IF q \in subscribers /\ Len(queues[q]) < QueueCap
              THEN Append(queues[q], STOP) ELSE queues[q]]

\* SseBroker.stop up to its await: stop_streaming(), task.cancel(), await task.
\* Without a task, or with one that is done already, nothing suspends and the
\* call runs to its end.
stop_begin(s) ==
    /\ stops[s].pc = "idle"
    /\ stop_event' = TRUE
    /\ IF btask # NoReader /\ readers[btask].pc # "done"
       THEN /\ readers' = [readers EXCEPT ![btask].cancel = TRUE]
            /\ stops' = [stops EXCEPT ![s] = [pc |-> "await", tgt |-> btask]]
            /\ UNCHANGED <<btask, queues>>
       ELSE /\ btask' = NoReader
            /\ queues' = PutStop
            /\ stops' = [stops EXCEPT ![s] = [pc |-> "returned", tgt |-> NoReader]]
            /\ UNCHANGED readers
    /\ UNCHANGED <<enginevars, regvars, nextReader, subscribers, obs, fcount>>

\* The awaited task is done: self._task = None, then the sentinels.
stop_resume(s) ==
    /\ stops[s].pc = "await"
    /\ readers[stops[s].tgt].pc = "done"
    /\ btask' = NoReader
    /\ queues' = PutStop
    /\ stops' = [stops EXCEPT ![s] = [pc |-> "returned", tgt |-> NoReader]]
    /\ UNCHANGED <<enginevars, regvars, readers, nextReader, stop_event, subscribers, obs, fcount>>

\* ---------------------------------------------------------------- stream_events
\* The task starts: _run calls stream_events, which clears the stop event and,
\* the event being clear, opens the stream.
reader_enter(k) ==
    /\ readers[k].pc = "new"
    /\ ~readers[k].cancel
    /\ stop_event' = FALSE
    /\ readers' = [readers EXCEPT ![k].pc = "open"]
    /\ UNCHANGED <<enginevars, regvars, btask, nextReader, subscribers, queues, obs, stops, fcount>>

\* A callback that gives the frame to nobody when some registered queue is full.
on_event_unless_full(f) ==
    IF \E q \in subscribers : Len(queues[q]) >= QueueCap THEN queues
    ELSE [q \in QueueIds |-> IF q \in subscribers THEN Append(queues[q], f) ELSE queues[q]]

\* SseBroker._on_event: the frame is put on every registered queue that has
\* room and dropped for a queue that is full.
on_event(f) == [q \in QueueIds |->
                  IF q \in subscribers /\ Len(queues[q]) < QueueCap
                  THEN Append(queues[q], f) ELSE queues[q]]

\* A frame arrives: return when stop was signalled, otherwise the callback.
reader_frame(k) ==
    /\ readers[k].pc = "open"
    /\ ~readers[k].cancel
    /\ fcount < MaxFrames
    /\ fcount' = fcount + 1
    /\ IF stop_event
       THEN readers' = ReaderEnds(k, "stopped") /\ UNCHANGED queues
       ELSE queues' = on_event(fcount + 1) /\ UNCHANGED readers
    /\ UNCHANGED <<enginevars, regvars, btask, nextReader, stop_event, subscribers, obs, stops>>

\* The server ends the stream: stream_events returns.
reader_eof(k) ==
    /\ readers[k].pc = "open"
    /\ ~readers[k].cancel
    /\ readers' = ReaderEnds(k, "eof")
    /\ UNCHANGED <<enginevars, regvars, btask, nextReader, stop_event, subscribers, queues, obs, stops, fcount>>

\* httpx.HTTPError: return when stop was signalled, otherwise sleep reconnect_delay.
reader_http_error(k) ==
    /\ readers[k].pc = "open"
    /\ ~readers[k].cancel
    /\ readers' = IF stop_event THEN ReaderEnds(k, "stopped")
                  ELSE [readers EXCEPT ![k].pc = "sleep"]
    /\ UNCHANGED <<enginevars, regvars, btask, nextReader, stop_event, subscribers, queues, obs, stops, fcount>>

\* The delay is over: the loop condition is tested and the stream opened again.
reader_wake(k) ==
    /\ readers[k].pc = "sleep"
    /\ ~readers[k].cancel
    /\ readers' = IF stop_event THEN ReaderEnds(k, "stopped")
                  ELSE [readers EXCEPT ![k].pc = "open"]
    /\ UNCHANGED <<enginevars, regvars, btask, nextReader, stop_event, subscribers, queues, obs, stops, fcount>>

\* task.cancel() was called: CancelledError at the await the reader is in (_run re-raises it).
reader_cancelled(k) ==
    /\ readers[k].cancel
    /\ readers[k].pc \in {"new", "open", "sleep"}
    /\ readers' = ReaderEnds(k, "cancelled")
    /\ UNCHANGED <<enginevars, regvars, btask, nextReader, stop_event, subscribers, queues, obs, stops, fcount>>

\* ---------------------------------------------------------------- observers
\* event_stream entry: subscribe().
subscribe(q) ==
    /\ obs[q] = "none"
    /\ subscribers' = subscribers \cup {q}
    /\ obs' = [obs EXCEPT ![q] = "reading"]
    /\ UNCHANGED <<enginevars, regvars, btask, readers, nextReader, stop_event, queues, stops, fcount>>

\* q.get() returns the oldest item; on the sentinel the loop ends and the
\* finally unsubscribes.
observer_get(q) ==
    /\ obs[q] = "reading"
    /\ queues[q] # <<>>
    /\ queues' = [queues EXCEPT ![q] = Tail(@)]
    /\ IF Head(queues[q]) = STOP
       THEN /\ obs' = [obs EXCEPT ![q] = "ended"]
            /\ subscribers' = subscribers \ {q}
       ELSE UNCHANGED <<obs, subscribers>>
    /\ UNCHANGED <<enginevars, regvars, btask, readers, nextReader, stop_event, stops, fcount>>

\* The browser goes away: the generator is closed and the finally unsubscribes.
observer_disconnect(q) ==
    /\ obs[q] = "reading"
    /\ obs' = [obs EXCEPT ![q] = "ended"]
    /\ subscribers' = subscribers \ {q}
    /\ UNCHANGED <<enginevars, regvars, btask, readers, nextReader, stop_event, queues, stops, fcount>>

Reader(k) ==
    \/ reader_enter(k)
    \/ reader_frame(k)
    \/ reader_eof(k)
    \/ reader_http_error(k)
    \/ reader_wake(k)
    \/ reader_cancelled(k)

\* ---------------------------------------------------------------- agent registry
\* The files change on disk.
edit_agents(a) ==
    /\ files.agents # a
    /\ files' = [files EXCEPT !.agents = a]
    /\ UNCHANGED <<enginevars, brokervars, config, rl, seen>>

edit_pipelines(p) ==
    /\ files.pipelines # p
    /\ files' = [files EXCEPT !.pipelines = p]
    /\ UNCHANGED <<enginevars, brokervars, config, rl, seen>>

\* A reload that installs the agents it read even when validation fails.
InstallPiecewise(cur, a, p) ==
    IF Validates(a, p) THEN Validated(a, p)
    ELSE IF a.ok THEN [cur EXCEPT !.agents = a.names] ELSE cur

\* What reload leaves in self._config: the new configuration when it validates,
\* the previous one otherwise.
Install(cur, a, p) == IF Validates(a, p) THEN Validated(a, p) ELSE cur

\* AgentRegistry.reload (in a worker thread), first half: the agents file is
\* opened and loaded; an error ends the reload with the configuration kept.
reload_begin ==
    /\ rl.pc = "idle"
    /\ rl' = IF files.agents.ok
             THEN [pc |-> "agents_read", agents |-> files.agents, last |-> rl.last]
             ELSE [pc |-> "idle", agents |-> BadFile, last |-> "failed"]
    /\ UNCHANGED <<enginevars, brokervars, files, config, seen>>

\* Second half: the pipelines file is loaded, both are validated together and
\* the result is assigned to self._config in one assignment.
reload_finish ==
    /\ rl.pc = "agents_read"
    /\ config' = Install(config, rl.agents, files.pipelines)
    /\ rl' = [pc |-> "idle", agents |-> BadFile,
              last |-> IF Validates(rl.agents, files.pipelines) THEN "ok" ELSE "failed"]
    /\ UNCHANGED <<enginevars, brokervars, files, seen>>

\* A reader (agents(), pipelines(), get_agent, get_pipeline) takes self._config.
registry_read ==
    /\ seen # config
    /\ seen' = config
    /\ UNCHANGED <<enginevars, brokervars, files, config, rl>>

\* ---------------------------------------------------------------- specifications
\* Every operation; handlers run one at a time; at most OpsTasks tasks are launched.
Next ==
    \/ \E p \in First, tpl \in Templates : create_pipeline(p, tpl)
    \/ \E t \in TaskIds : Engine(t)
    \/ \E t \in TaskIds : cancelled(t)
    \/ \E p \in First : abort_pipeline_read(1, p)
    \/ abort_pipeline_finish(1)
    \/ \E p \in First : restart_pipeline_read(1, p, OpsTasks)
    \/ restart_pipeline_launch(1)
    \/ \E p \in First, d \in {"approved", "rejected"}, c \in Comments : decision_read(1, p, d, c)
    \/ decision_write(1)
    \/ crash_recover(OpsTasks)

Spec == Init /\ [][Next]_vars

\* One run of a created pipeline with approve / reject requests, up to MaxReq of
\* them in flight at once; no abort, restart or crash.
NextRun ==
    \/ \E p \in First, tpl \in Templates : create_pipeline(p, tpl)
    \/ \E t \in TaskIds : Engine(t)
    \/ \E r \in ReqIds, p \in First, d \in {"approved", "rejected"}, c \in Comments :
          decision_read(r, p, d, c)
    \/ \E r \in ReqIds : decision_write(r)

SpecRun == Init /\ [][NextRun]_vars

\* One run of a created pipeline of up to GateSteps steps, with up to GateReq
\* approve / reject requests in flight at once.
NextGate ==
    \/ \E p \in First, tpl \in TemplatesUpTo(GateSteps) : create_pipeline(p, tpl)
    \/ \E t \in TaskIds : Engine(t)
    \/ \E r \in 1..GateReq, p \in First, d \in {"approved", "rejected"}, c \in Comments :
          decision_read(r, p, d, c)
    \/ \E r \in 1..GateReq : decision_write(r)

SpecGate == Init /\ [][NextGate]_vars

\* Every operation on short pipelines, with up to RaceTasks tasks launched.
NextRace ==
    \/ \E p \in First, tpl \in TemplatesUpTo(RaceSteps) : create_pipeline(p, tpl)
    \/ \E t \in TaskIds : Engine(t)
    \/ \E t \in TaskIds : cancelled(t)
    \/ \E p \in First : abort_pipeline_read(1, p)
    \/ abort_pipeline_finish(1)
    \/ \E p \in First : restart_pipeline_read(1, p, RaceTasks)
    \/ restart_pipeline_launch(1)
    \/ \E p \in First, d \in {"approved", "rejected"}, c \in Comments : decision_read(1, p, d, c)
    \/ decision_write(1)
    \/ crash_recover(RaceTasks)

SpecRace == Init /\ [][NextRace]_vars

\* One run of a pipeline of up to AbortSteps steps with approve / reject and abort
\* requests; no restart, no crash.
NextAbort ==
    \/ \E p \in First, tpl \in TemplatesUpTo(AbortSteps) : create_pipeline(p, tpl)
    \/ \E t \in TaskIds : Engine(t)
    \/ \E t \in TaskIds : cancelled(t)
    \/ \E p \in First : abort_pipeline_read(1, p)
    \/ abort_pipeline_finish(1)
    \/ \E p \in First, d \in {"approved", "rejected"}, c \in Comments : decision_read(1, p, d, c)
    \/ decision_write(1)

SpecAbort == Init /\ [][NextAbort]_vars

\* Runs of a pipeline of up to ResumeSteps steps interrupted by process crashes
\* and resumed by the recovery at startup.
NextResume ==
    \/ \E p \in First, tpl \in TemplatesUpTo(ResumeSteps) : create_pipeline(p, tpl)
    \/ \E t \in TaskIds : Engine(t)
    \/ \E p \in First, d \in {"approved", "rejected"}, c \in Comments : decision_read(1, p, d, c)
    \/ decision_write(1)
    \/ crash_recover(ResumeTasks)

SpecResume == Init /\ [][NextResume]_vars

\* Several pipelines side by side: create, run, approve / reject, abort and crash
\* recovery, on templates of up to MultiSteps steps.
NextMulti ==
    \/ \E p \in Pipes, tpl \in TemplatesUpTo(MultiSteps) : create_pipeline(p, tpl)
    \/ \E t \in TaskIds : Engine(t)
    \/ \E t \in TaskIds : cancelled(t)
    \/ \E p \in Pipes : abort_pipeline_read(1, p)
    \/ abort_pipeline_finish(1)
    \/ \E p \in Pipes, d \in {"approved", "rejected"} : decision_read(1, p, d, "none")
    \/ decision_write(1)
    \/ crash_recover(MaxTasks)

SpecMulti == Init /\ [][NextMulti]_vars

\* One pipeline of up to StopSteps steps with approve / reject, abort, restart
\* and graceful shutdown followed by the next start.
NextStop ==
    \/ \E p \in First, tpl \in TemplatesUpTo(StopSteps) : create_pipeline(p, tpl)
    \/ \E t \in TaskIds : Engine(t)
    \/ \E t \in TaskIds : cancelled(t)
    \/ \E p \in First : abort_pipeline_read(1, p)
    \/ abort_pipeline_finish(1)
    \/ \E p \in First : restart_pipeline_read(1, p, StopTasks)
    \/ restart_pipeline_launch(1)
    \/ \E p \in First, d \in {"approved", "rejected"} : decision_read(1, p, d, "none")
    \/ decision_write(1)
    \/ lifespan_shutdown
    \/ lifespan_exit(StopTasks)

SpecStop == Init /\ [][NextStop]_vars

\* The broker with its readers and observers.
NextBroker ==
    \/ start
    \/ \E s \in StopIds : stop_begin(s)
    \/ \E s \in StopIds : stop_resume(s)
    \/ \E k \in ReaderIds : Reader(k)
    \/ \E q \in QueueIds : subscribe(q)
    \/ \E q \in QueueIds : observer_get(q)
    \/ \E q \in QueueIds : observer_disconnect(q)

SpecBroker == Init /\ [][NextBroker]_vars

\* The fan-out alone: one upstream, its frames and reconnects, the observers.
NextFanout ==
    \/ start
    \/ \E k \in ReaderIds : reader_enter(k)
    \/ \E k \in ReaderIds : reader_frame(k)
    \/ \E k \in ReaderIds : reader_eof(k)
    \/ \E k \in ReaderIds : reader_http_error(k)
    \/ \E k \in ReaderIds : reader_wake(k)
    \/ \E q \in QueueIds : subscribe(q)
    \/ \E q \in QueueIds : observer_get(q)
    \/ \E q \in QueueIds : observer_disconnect(q)

SpecFanout == Init /\ [][NextFanout]_vars

\* Runs over templates of up to MaxSteps steps with gate decisions that carry a
\* comment or none, and crash recovery: the prompts handed from step to step.
NextChain ==
    \/ \E p \in First, tpl \in Templates : create_pipeline(p, tpl)
    \/ \E t \in TaskIds : Engine(t)
    \/ \E p \in First, d \in {"approved", "rejected"}, c \in Comments : decision_read(1, p, d, c)
    \/ decision_write(1)
    \/ crash_recover(ResumeTasks)

SpecChain == Init /\ [][NextChain]_vars

\* A pipeline of OverlapSteps agent steps on a backend that always answers,
\* with abort and restart requests and up to RaceTasks tasks.
NextOverlap ==
    \/ \E p \in First : create_pipeline(p, [i \in 1..OverlapSteps |-> AGENT])
    \/ \E t \in TaskIds : task_start(t)
    \/ \E t \in TaskIds : step_begin(t)
    \/ \E t \in TaskIds : create_session_ok(t)
    \/ \E t \in TaskIds : send_ok(t, TRUE)
    \/ \E t \in TaskIds : delete_session(t, TRUE)
    \/ \E t \in TaskIds : finish(t)
    \/ \E t \in TaskIds : run_finally(t)
    \/ \E t \in TaskIds : done_callback(t)
    \/ \E t \in TaskIds : cancelled(t)
    \/ \E p \in First : abort_pipeline_read(1, p)
    \/ abort_pipeline_finish(1)
    \/ \E p \in First : restart_pipeline_read(1, p, RaceTasks)
    \/ restart_pipeline_launch(1)

SpecOverlap == Init /\ [][NextOverlap]_vars

\* The registry: file edits, reloads by the watcher, readers.
NextRegistry ==
    \/ \E a \in AgentsFiles : edit_agents(a)
    \/ \E p \in PipelinesFiles : edit_pipelines(p)
    \/ reload_begin
    \/ reload_finish
    \/ registry_read

SpecRegistry == Init /\ [][NextRegistry]_vars

\* ---------------------------------------------------------------- claims
\* The engine of task t has stopped (run_fn returned or raised); the task's
\* record still holds where it stopped and why.
Stopped(t) == tasks[t].pc \in {"exit", "closing"}
CallFaults == {"create_session", "send_message", "timeout", "timeout_abort_failed"}
ApprovalsOf(p, i) == {a \in DOMAIN approvals[p] : approvals[p][a].step = i}
Gates(p) == {i \in Pos(p) : kinds[p][i] = APPROVAL_SENTINEL}
\* Some live task is suspended in the wait of gate i.
WaitingAt(p, i) ==
    \E t \in TaskIds : /\ tasks[t].pid = p
                       /\ tasks[t].pc \in {"wait", "wait_timed"}
                       /\ Cur(t) = i
EveryGateApproved(p) ==
    \A i \in Gates(p) : /\ ApprovalsOf(p, i) # {}
                        /\ \A a \in ApprovalsOf(p, i) : approvals[p][a].status = "approved"

\* C1: a run in which no agent call failed, the engine saw no rejection and every
\* gate's Approval is approved ends with the Pipeline done and every Step done.
C1_RunEndsDone ==
    \A t \in TaskIds :
        (/\ Stopped(t)
         /\ tasks[t].kind = "create"
         /\ tasks[t].fault \notin CallFaults \cup {"unknown_agent", "rejected"}
         /\ EveryGateApproved(tasks[t].pid))
        => /\ pstatus[tasks[t].pid] = "done"
           /\ \A i \in Pos(tasks[t].pid) : sstatus[tasks[t].pid][i] = "done"

\* C2: when the run stops because the execution of step k failed (backend error
\* or timeout), steps before k are done, k is failed, the steps after k are
\* pending with no backend call made, and the Pipeline is failed.
C2_FailureAtK ==
    \A t \in TaskIds :
        (Stopped(t) /\ tasks[t].kind = "create" /\ tasks[t].fault \in CallFaults)
        => LET p == tasks[t].pid
               k == Cur(t)
           IN /\ \A i \in Pos(p) : i < k => sstatus[p][i] = "done"
              /\ sstatus[p][k] = "failed"
              /\ \A i \in Pos(p) : i > k => sstatus[p][i] = "pending" /\ i \notin bcalls[p]
              /\ pstatus[p] = "failed"

\* C3: a Pipeline whose status is done has every Step done.
C3_DoneHasAllStepsDone ==
    \A p \in Pipes : pstatus[p] = "done" => \A i \in Pos(p) : sstatus[p][i] = "done"

\* C4: a Pipeline whose status is failed has at least one Step in status failed.
C4_FailedHasFailedStep ==
    \A p \in Pipes : pstatus[p] = "failed" => \E i \in Pos(p) : sstatus[p][i] = "failed"

InStep(t) == tasks[t].pc \in {"resolve", "send", "abort", "wait", "wait_timed"} /\ ~tasks[t].cancel
\* C5: at most one task has a Step of the Pipeline in execution at any time.
C5_OneStepAtATime ==
    \A p \in Pipes : Cardinality({t \in TaskIds : tasks[t].pid = p /\ InStep(t)}) <= 1

PastGate(t, i) ==
    /\ tasks[t].pc \notin {"unused", "init", "dead"}
    /\ tasks[t].fault # "rejected"
    /\ \E j \in 1..Len(tasks[t].rem) : tasks[t].rem[j] = i /\ j <= tasks[t].idx
    /\ ~(AtStep(t) /\ Cur(t) = i /\ tasks[t].pc \in {"loop", "wait", "wait_timed"})
\* C6: once a gate the engine reached is approved and the engine has left the
\* wait of that gate without having seen a rejection, the gate Step is done, it
\* has exactly one Approval row, approved with a decision timestamp, and the
\* Pipeline is no longer waiting_for_approval nor failed by the gate.
C6_ApprovedGateDone ==
    \A p \in Pipes : \A t \in TaskIds : \A i \in Gates(p) :
        (/\ tasks[t].pid = p
         /\ tasks[t].kind = "create"
         /\ PastGate(t, i)
         /\ ~tasks[t].cancel
         /\ \E a \in ApprovalsOf(p, i) : approvals[p][a].status = "approved")
        => /\ sstatus[p][i] = "done"
           /\ Cardinality(ApprovalsOf(p, i)) = 1
           /\ \A a \in ApprovalsOf(p, i) : approvals[p][a].at # 0

\* C7: once a gate is rejected and the engine is no longer suspended in it, the
\* gate Step and the Pipeline are failed, every later Step is pending and no
\* backend call was made for a later Step.
C7_RejectedGateStops ==
    \A p \in Pipes : \A i \in Gates(p) :
        ((\E a \in ApprovalsOf(p, i) : approvals[p][a].status = "rejected") /\ ~WaitingAt(p, i))
        => /\ sstatus[p][i] = "failed"
           /\ pstatus[p] = "failed"
           /\ \A j \in Pos(p) : j > i => /\ sstatus[p][j] = "pending"
                                         /\ j \notin bcalls[p]
                                         /\ j \notin sent[p]

ReminderWritten(t) ==
    /\ tasks[t].pc = "wait_timed"
    /\ reminders'[tasks[t].pid] # reminders[tasks[t].pid]
    /\ tasks'[t].pid = tasks[t].pid
LeavesRemindedWait(t) ==
    /\ tasks[t].pc = "wait"
    /\ ~tasks[t].cancel
    /\ reminders[tasks[t].pid][Cur(t)] = 1
    /\ tasks'[t].pc \in {"loop", "exit"}
C9_DecidedIsFinal ==
    [][\A p \in Pipes : \A a \in DOMAIN approvals[p] :
          approvals[p][a].status # "pending" => approvals'[p][a] = approvals[p][a]]_vars

\* C10: every gate Step owns at most one Approval row.
C10_OneApprovalPerGate ==
    \A p \in Pipes : \A i \in Pos(p) : Cardinality(ApprovalsOf(p, i)) <= 1

TimedOut(t) == tasks[t].fault \in {"timeout", "timeout_abort_failed"}
\* C11: when a step's send timed out and the engine has stopped, exactly one
\* abort_session call was made for the step's session, the Step is failed,
\* run_step signalled a StepExecutionError (run_fn returned normally) and the
\* Pipeline is failed.
C11_TimeoutFailsStep ==
    \A t \in TaskIds :
        (Stopped(t) /\ TimedOut(t) /\ tasks[t].exc # "cancelled")
        => /\ tasks[t].aborts = 1
           /\ sstatus[tasks[t].pid][Cur(t)] = "failed"
           /\ tasks[t].exc = "none"
           /\ pstatus[tasks[t].pid] = "failed"

InRunStep(t) == tasks[t].pc \in {"send", "abort", "del"}
LeavesRunStep(t) ==
    /\ InRunStep(t)
    /\ tasks'[t].pid = tasks[t].pid
    /\ tasks'[t].pc \notin {"send", "abort", "del"}
\* C12: a run_step that created a session calls delete_session exactly once
\* before it is left (none while the send or the abort is awaited, one from then
\* on), whether the step succeeded, failed, timed out or was cancelled; and
\* whether that delete_session returns or raises, run_step is left with the
\* outcome it had: the Step rows are untouched, a successful step goes on with
\* the next one, a StepExecutionError ends the run without an exception.
C12_DeleteOnce ==
    /\ [](\A t \in TaskIds :
            /\ tasks[t].pc \in {"send", "abort"} => tasks[t].dels = 0
            /\ tasks[t].pc = "del" => tasks[t].dels = 1)
    /\ [][\A t \in TaskIds : LeavesRunStep(t) =>
            /\ tasks[t].pc = "del"
            /\ tasks'[t].dels = 1
            /\ sstatus' = sstatus
            /\ (~tasks[t].cancel /\ tasks[t].out = "ok") =>
                   /\ tasks'[t].pc = "loop"
                   /\ tasks'[t].idx = tasks[t].idx + 1
                   /\ tasks'[t].exc = "none"
            /\ (~tasks[t].cancel /\ tasks[t].out = "fail") =>
                   /\ tasks'[t].pc = "exit"
                   /\ tasks'[t].exc = "none"]_vars
\* A task cancelled while its send was in flight has left run_step after one
\* delete_session call.
C12_Witness ==
    \E t \in TaskIds : /\ tasks[t].pc = "exit"
                       /\ tasks[t].exc = "cancelled"
                       /\ tasks[t].log # <<>>
                       /\ tasks[t].dels = 1
                       /\ AtStep(t)
                       /\ sstatus[tasks[t].pid][Cur(t)] = "running"

\* C13: a runner's current session id is non-null only while the send (or the
\* abort after a timeout) of a non-gate step is awaited inside run_step, and it
\* names that step's session; it is null before the first step, between steps,
\* at an approval gate and once run_step is being left.
C13_SessionOnlyInFlight ==
    \A t \in TaskIds :
        /\ tasks[t].sid # NoSess =>
               /\ tasks[t].pc \in {"send", "abort"}
               /\ AtStep(t)
               /\ kinds[tasks[t].pid][Cur(t)] = AGENT
               /\ tasks[t].sid = Cur(t)
        /\ tasks[t].pc \in {"unused", "init", "loop", "resolve", "del", "wait", "wait_timed",
                            "exit", "closing", "dead"} => tasks[t].sid = NoSess
\* A step was cancelled with its session in flight and the session id is null again.
C13_Witness ==
    \E t \in TaskIds : /\ tasks[t].pc \in {"del", "exit"}
                       /\ tasks[t].log # <<>>
                       /\ tasks[t].dels = 1
                       /\ tasks[t].out = "cancelled" \/ tasks[t].exc = "cancelled"
                       /\ tasks[t].sid = NoSess

ResumeStarts(t) ==
    /\ tasks[t].pc = "init"
    /\ tasks[t].kind \in {"restart", "recover"}
    /\ tasks'[t].pid = tasks[t].pid
    /\ tasks'[t].pc \in {"loop", "exit"}
AllStepsDone(p) == \A i \in Pos(p) : sstatus[p][i] = "done"
\* C14: a resume (restart or recovery task) that finds every Step done sets the
\* Pipeline done and ends at once, without creating a session or sending a
\* message; a resume of a Pipeline that is already done leaves it done.
C14_ResumeAllDone ==
    /\ [][\A t \in TaskIds : (ResumeStarts(t) /\ AllStepsDone(tasks[t].pid)) =>
            /\ pstatus'[tasks[t].pid] = "done"
            /\ tasks'[t].pc = "exit"
            /\ tasks'[t].exc = "none"
            /\ tasks'[t].log = <<>>
            /\ sstatus' = sstatus
            /\ bcalls' = bcalls /\ sent' = sent]_vars
    /\ [](\A t \in TaskIds :
            (tasks[t].kind \in {"restart", "recover"} /\ tasks[t].rem = <<>>)
            => tasks[t].log = <<>> /\ tasks[t].sid = NoSess /\ tasks[t].pc \notin {"loop", "resolve", "send"})
\* A resume task found every Step done and ended with the Pipeline done.
C14_Witness ==
    \E t \in TaskIds : /\ tasks[t].kind \in {"restart", "recover"}
                       /\ tasks[t].pc = "exit"
                       /\ tasks[t].rem = <<>>
                       /\ NSteps(tasks[t].pid) > 0
                       /\ AllStepsDone(tasks[t].pid)
                       /\ pstatus[tasks[t].pid] = "done"

IsResume(t) == tasks[t].kind \in {"restart", "recover"}
DoneWithHandoff(p) == {i \in Pos(p) : sstatus[p][i] = "done" /\ HandoffsOf(p, i) # {}}
LastOf(S) == CHOOSE i \in S : \A j \in S : j <= i
ExpectedResumePrompt(p) ==
    IF DoneWithHandoff(p) = {} THEN InitialPrompt
    ELSE LET h == LastOf(HandoffsOf(p, LastOf(DoneWithHandoff(p))))
         IN IF handoffs[p][h].structured THEN to_context_header(h) ELSE RawOutput(h)
Increasing(seq) == \A i, j \in DOMAIN seq : i < j => seq[i] < seq[j]
AgentStepsOf(p, seq) == SelectSeq(seq, LAMBDA i : kinds[p][i] = AGENT)
\* C15: a resume takes exactly the Steps that are not done, in position order;
\* its starting prompt is the one of the highest-id Handoff of the last done
\* Step that has a Handoff (context header with structured metadata, raw content
\* without), or the Pipeline's prompt when no done Step has a Handoff; its first
\* message carries that prompt when the first remaining Step is an agent step;
\* it sends at most one message per Step, only for remaining agent steps, and
\* exactly one for each of them when all succeed.
C15_ResumeFromFirstNotDone ==
    /\ [][\A t \in TaskIds : ResumeStarts(t) =>
            LET p == tasks[t].pid
                rem == tasks'[t].rem
            IN /\ Increasing(rem)
               /\ \A i \in Pos(p) : (sstatus[p][i] # "done") <=> (\E j \in DOMAIN rem : rem[j] = i)
               /\ tasks'[t].idx = 1
               /\ tasks'[t].prompt = ExpectedResumePrompt(p)
               /\ tasks'[t].log = <<>>]_vars
    /\ [](\A t \in TaskIds : IsResume(t) =>
            /\ Increasing(tasks[t].log)
            /\ \A k \in DOMAIN tasks[t].log :
                   /\ kinds[tasks[t].pid][tasks[t].log[k]] = AGENT
                   /\ \E j \in DOMAIN tasks[t].rem : j <= tasks[t].idx /\ tasks[t].rem[j] = tasks[t].log[k]
            /\ (tasks[t].idx = 1 /\ tasks[t].pc = "send") => tasks[t].first = tasks[t].prompt
            /\ (tasks[t].pc = "exit" /\ tasks[t].idx > Len(tasks[t].rem) /\ tasks[t].exc = "none")
                   => tasks[t].log = AgentStepsOf(tasks[t].pid, tasks[t].rem))
\* A resume found the first Step done with a structured Handoff, took only the
\* second Step and sent its one message with the context header of that Handoff.
C15_Witness ==
    \E t \in TaskIds : /\ IsResume(t)
                       /\ tasks[t].pc = "exit"
                       /\ tasks[t].rem = <<2>>
                       /\ tasks[t].log = <<2>>
                       /\ tasks[t].first.form = "header"
                       /\ handoffs[tasks[t].pid][tasks[t].first.hid].step = 1
                       /\ pstatus[tasks[t].pid] = "done"

RecoverTasksOf(tk, p) == {t \in TaskIds : tk[t].pid = p /\ tk[t].pc \notin {"unused", "dead"}}
RecoveryRaises(t) ==
    /\ tasks[t].kind = "recover"
    /\ tasks[t].exc # "error"
    /\ tasks'[t].exc = "error"
OthersUntouched(p) ==
    /\ \A q \in Pipes \ {p} :
          /\ pstatus'[q] = pstatus[q]
          /\ sstatus'[q] = sstatus[q]
          /\ approvals'[q] = approvals[q]
          /\ handoffs'[q] = handoffs[q]
          /\ pipeline_tasks'[q] = pipeline_tasks[q]
    /\ \A u \in TaskIds : tasks[u].pid # p => tasks'[u] = tasks[u]
\* C16: at startup, recovery starts exactly one resume task for every Pipeline
\* whose status is running and none for any other Pipeline; when an exception
\* ends the resume of one Pipeline, that Pipeline becomes failed and no row and
\* no task of another Pipeline changes.
C16_RecoveryPerPipeline ==
    /\ [][crash_recover(MaxTasks) =>
            \A p \in Pipes :
               /\ pstatus[p] = "running" =>
                     /\ Cardinality(RecoverTasksOf(tasks', p)) = 1
                     /\ \A t \in RecoverTasksOf(tasks', p) :
                           /\ tasks'[t] = NewTask(p, "recover")
                           /\ pipeline_tasks'[p] = t
               /\ pstatus[p] # "running" => RecoverTasksOf(tasks', p) = {}]_vars
    /\ [][\A t \in TaskIds : RecoveryRaises(t) =>
            /\ pstatus'[tasks[t].pid] = "failed"
            /\ OthersUntouched(tasks[t].pid)]_vars
\* Two Pipelines were resumed by recovery; the resume of the first ended by an
\* exception and it is failed, the second is still running under its own task.
C16_Witness ==
    \E t, u \in TaskIds :
        /\ tasks[t].kind = "recover" /\ tasks[t].pid = 1
        /\ tasks[t].exc = "error" /\ pstatus[1] = "failed"
        /\ tasks[u].kind = "recover" /\ tasks[u].pid = 2
        /\ tasks[u].pc \in {"send", "wait"} /\ pstatus[2] = "running"

EndsByException(t) ==
    /\ tasks[t].kind \in {"create", "restart", "recover"}
    /\ tasks[t].exc # "error"
    /\ tasks'[t].exc = "error"
\* C17: in the step in which an exception other than a cancellation ends the
\* engine call of a background task (started by create, restart or recovery),
\* the persisted status of its Pipeline becomes, or already is, done or failed.
\* The guard of _run tests the status its own session holds: a task that loaded
\* failed writes nothing, whatever the row says by then.
C17_ExceptionEndsTerminal ==
    [][\A t \in TaskIds : EndsByException(t) =>
          pstatus'[tasks[t].pid] \in {"done", "failed"}]_vars

\* C18: when the engine has stopped on a failure local to one step (a
\* create_session error, a send error or timeout, a failing abort_session), no
\* exception has left run_pipeline / resume_pipeline and the Pipeline is failed.
C18_StepFailureContained ==
    \A t \in TaskIds :
        (Stopped(t) /\ tasks[t].fault \in CallFaults) =>
            /\ tasks[t].exc = "none"
            /\ pstatus[tasks[t].pid] = "failed"

AbortStep(p) ==
    \/ abort_pipeline_read(1, p)
    \/ reqs[1].kind = "abort" /\ reqs[1].pid = p /\ abort_pipeline_finish(1)
\* C19: an abort of Pipeline p requests cancellation of no task but the one
\* registered for p, which is a task of p, writes no row but the Pipeline row of
\* p, and leaves the tasks, rows and map entries of every other Pipeline as
\* they are.
C19_AbortOnlyItsOwn ==
    [][\A p \in Pipes : AbortStep(p) =>
          /\ OthersUntouched(p)
          /\ \A u \in TaskIds : (tasks'[u].cancel /\ ~tasks[u].cancel) =>
                 tasks[u].pid = p /\ pipeline_tasks[p] = u
          /\ sstatus' = sstatus /\ approvals' = approvals /\ handoffs' = handoffs
          /\ active_runners' = active_runners
          /\ approval_events' = approval_events
          /\ pipeline_tasks' = pipeline_tasks]_vars
\* Pipeline 1 was aborted while both Pipelines were executing a step: its task is
\* marked for cancellation and it is failed; Pipeline 2 is running and its task
\* is still in its send, not cancelled.
C19_Witness ==
    \E t, u \in TaskIds :
        /\ tasks[t].pid = 1 /\ tasks[t].cancel /\ tasks[t].pc = "send"
        /\ pstatus[1] = "failed"
        /\ tasks[u].pid = 2 /\ ~tasks[u].cancel /\ tasks[u].pc = "send"
        /\ pstatus[2] = "running"

SessionInFlight(p) == {t \in TaskIds : tasks[t].pid = p /\ tasks[t].sid # NoSess}
\* C20: when an abort is accepted for a Pipeline whose engine has a session in
\* flight, the handler issues abort_session against that session, whether the
\* engine was started by create, restart or crash recovery.
C20_AbortReachesSession ==
    [][\A p \in Pipes :
          (abort_pipeline_read(1, p) /\ SessionInFlight(p) # {}) =>
              /\ reqs'[1].kind = "abort"
              /\ reqs'[1].tgt \in SessionInFlight(p)]_vars

ShuttingDown == reqs[1].kind = "shutdown"
\* C21: the lifespan shutdown requests cancellation of every Pipeline task that
\* is in flight and the process exits only when none is in flight any more;
\* between the two no persisted Pipeline status changes (a running Pipeline
\* stays running); and the start that follows resumes every running Pipeline
\* with one recovery task that takes its first not-done Step first.
C21_ShutdownCancelsAndKeepsStatus ==
    /\ [][lifespan_shutdown => \A t \in TaskIds : InFlight(t) => tasks'[t].cancel]_vars
    /\ [][(ShuttingDown /\ reqs'[1].kind = "shutdown") => pstatus' = pstatus]_vars
    /\ [][(ShuttingDown /\ lifespan_exit(StopTasks)) =>
             /\ \A t \in TaskIds : ~InFlight(t)
             /\ pstatus' = pstatus
             /\ \A p \in Pipes : pstatus[p] = "running" =>
                    \E t \in TaskIds : tasks'[t] = NewTask(p, "recover")]_vars

\* C22: at most one reader task of the broker is alive at any time, whatever
\* the sequence and interleaving of start() and stop() calls.
C22_OneReader == Cardinality({k \in ReaderIds : ReaderAlive(k)}) <= 1

FrameHandled == fcount' = fcount + 1 /\ ~stop_event
Items(q) == {queues[q][i] : i \in DOMAIN queues[q]}
\* C23: when a frame is handled, every registered queue with room gets the
\* frame appended, a full queue and an unregistered queue stay as they are, and
\* the reader that handled it is where it was, awaiting the next frame.
C23_FanOutDropsOnlyForFull ==
    [][FrameHandled =>
          /\ \A q \in QueueIds :
                queues'[q] = IF q \in subscribers /\ Len(queues[q]) < QueueCap
                             THEN Append(queues[q], fcount + 1)
                             ELSE queues[q]
          /\ readers' = readers
          /\ subscribers' = subscribers]_vars
\* Two observers are registered; the queue of one is full and misses the last
\* frame, the queue of the other received it, and the reader is still open.
C23_Witness ==
    \E q1, q2 \in subscribers :
        /\ Len(queues[q1]) = QueueCap /\ fcount \notin Items(q1)
        /\ queues[q2] # <<>> /\ queues[q2][Len(queues[q2])] = fcount
        /\ \E k \in ReaderIds : readers[k].pc = "open"

StopReturns(s) == stops[s].pc # "returned" /\ stops'[s].pc = "returned"
\* C24: when a stop() call returns, the queue of every observer registered at
\* that time contains the shutdown sentinel, whatever its fill level was.
C24_StopLeavesSentinel ==
    [][\A s \in StopIds : StopReturns(s) =>
          \A q \in subscribers : \E i \in DOMAIN queues'[q] : queues'[q][i] = STOP]_vars

StreamReturns(k) ==
    /\ ReaderAlive(k)
    /\ readers'[k].pc = "done"
    /\ readers'[k].end # "cancelled"
\* C25: stream_events returns only when stop has been signalled (the stop event
\* is set at the moment it returns).
C25_ReturnsOnlyAfterStop ==
    [][\A k \in ReaderIds : StreamReturns(k) => stop_event]_vars

WellFormed(c) == c.refs \subseteq c.agents
\* C26: the configuration changes only when a reload has read and validated both
\* files, and then to exactly what that reload read; a reload that fails leaves
\* it as it was and raises nothing; the configuration, and what any reader got,
\* is always a whole validated configuration.
C26_ReloadKeepsLastValid ==
    /\ [][config' # config =>
             /\ rl.pc = "agents_read"
             /\ Validates(rl.agents, files.pipelines)
             /\ config' = Validated(rl.agents, files.pipelines)
             /\ rl'.last = "ok"]_vars
    /\ [][(/\ rl' # rl
            /\ rl'.pc = "idle"
            /\ ~(rl.pc = "agents_read" /\ Validates(rl.agents, files.pipelines)))
           => (config' = config /\ rl'.last = "failed")]_vars
    /\ [](WellFormed(config) /\ WellFormed(seen) /\ rl.last \in {"ok", "failed"})
\* A reload read a valid agents file that drops an agent the current pipelines
\* use, failed on the pipelines file, and the configuration still has the agent.
C26_Witness ==
    /\ rl.last = "failed"
    /\ rl.pc = "idle"
    /\ config = Validated(AgentsFile({"dev", "qa"}), PipelinesFile({"qa"}))
    /\ files.agents = AgentsFile({"dev"})
    /\ seen = config

\* C27: when the agent of a non-gate Step cannot be resolved, that step commits
\* the Step and the Pipeline as failed, creates no agent session and sends no
\* message, leaves every other Step as it was, and the task runs no Step after it.
C27_UnknownAgentFailsPipeline ==
    /\ [][\A t \in TaskIds : (tasks[t].pc = "resolve" /\ tasks'[t].fault = "unknown_agent") =>
             LET p == tasks[t].pid IN
             /\ sstatus'[p][Cur(t)] = "failed"
             /\ pstatus'[p] = "failed"
             /\ bcalls' = bcalls /\ sent' = sent
             /\ \A j \in DOMAIN sstatus[p] : j # Cur(t) => sstatus'[p][j] = sstatus[p][j]
             /\ \A j \in DOMAIN sstatus[p] :
                    (j > Cur(t) /\ tasks[t].kind = "create") => sstatus'[p][j] = "pending"
             /\ tasks'[t].pc = "exit"]_vars
    /\ [][\A t \in TaskIds : tasks[t].fault = "unknown_agent" =>
             tasks'[t].pc \notin {"loop", "resolve", "create", "send", "gate"}]_vars

SameRun(t) == tasks'[t].pid = tasks[t].pid /\ tasks'[t].kind = tasks[t].kind /\ tasks'[t].pc \notin {"init", "dead", "unused"}
StepReceives(t) == SameRun(t) /\ Len(tasks'[t].plog) = Len(tasks[t].plog) + 1
AgentStepDone(t) == SameRun(t) /\ tasks[t].pc = "send" /\ tasks'[t].out = "ok" /\ tasks'[t].pc = "del"
GatePassed(t) == SameRun(t) /\ tasks[t].pc \in {"wait", "wait_timed"} /\ tasks'[t].pc = "loop"
GatesBetween(t, a, b) == {i \in a + 1 .. b - 1 : kinds[tasks[t].pid][i] = APPROVAL_SENTINEL}
\* C28: a fresh run starts with the Pipeline's prompt; every agent step is given
\* the current prompt; a finished agent step replaces it by the context header of
\* the Handoff it just stored when that has structured metadata and by its raw
\* content when it has none; an approved gate appends the approval note when a
\* comment was given and leaves it unchanged otherwise; nothing else changes it.
C28_PromptChain ==
    /\ [][\A t \in TaskIds :
            LET p == tasks[t].pid
                pr == tasks[t].prompt
                h == Len(handoffs[p]) + 1
            IN
            /\ (SameRun(t) /\ tasks[t].pc = "init" /\ tasks'[t].pc = "loop" /\ tasks[t].kind = "create")
                   => tasks'[t].prompt = [form |-> "initial", hid |-> 0, notes |-> 0]
            /\ StepReceives(t)
                   => /\ tasks'[t].plog[Len(tasks'[t].plog)] = pr
                      /\ tasks'[t].log[Len(tasks'[t].log)] = Cur(t)
                      /\ Len(tasks'[t].log) = Len(tasks'[t].plog)
                      /\ tasks'[t].prompt = pr
            /\ AgentStepDone(t)
                   => /\ Len(handoffs'[p]) = h
                      /\ handoffs'[p][h].step = Cur(t)
                      /\ tasks'[t].prompt = [form |-> IF handoffs'[p][h].structured THEN "header" ELSE "raw",
                                             hid |-> h, notes |-> 0]
            /\ GatePassed(t)
                   => /\ approvals[p][tasks[t].tap].status = "approved"
                      /\ approvals[p][tasks[t].tap].step = Cur(t)
                      /\ tasks'[t].prompt = IF approvals[p][tasks[t].tap].comment # "none"
                                            THEN [pr EXCEPT !.notes = @ + 1] ELSE pr
            /\ (SameRun(t) /\ tasks'[t].prompt # pr)
                   => (tasks[t].pc = "init" \/ AgentStepDone(t) \/ GatePassed(t))]_vars
    /\ [](\A t \in TaskIds : \A k \in DOMAIN tasks[t].plog :
            LET p == tasks[t].pid
                got == tasks[t].plog[k]
            IN IF k = 1
               THEN tasks[t].kind = "create" =>
                       /\ got.form = "initial"
                       /\ got.notes <= Cardinality(GatesBetween(t, 0, tasks[t].log[1]))
               ELSE /\ got.hid \in DOMAIN handoffs[p]
                    /\ handoffs[p][got.hid].step = tasks[t].log[k - 1]
                    /\ got.form = IF handoffs[p][got.hid].structured THEN "header" ELSE "raw"
                    /\ got.notes <= Cardinality(GatesBetween(t, tasks[t].log[k - 1], tasks[t].log[k])))
\* A fresh run of agent step, gate, agent step: the first step got the Pipeline's
\* prompt and stored a structured Handoff, the gate was approved with a comment,
\* and the third step got the context header with the note appended.
C28_Witness ==
    \E t \in TaskIds :
        /\ tasks[t].kind = "create"
        /\ kinds[tasks[t].pid] = <<AGENT, APPROVAL_SENTINEL, AGENT>>
        /\ tasks[t].log = <<1, 3>>
        /\ tasks[t].plog = <<[form |-> "initial", hid |-> 0, notes |-> 0],
                             [form |-> "header", hid |-> 1, notes |-> 1]>>

StepTaken(t) ==
    /\ tasks[t].pc = "loop"
    /\ tasks'[t].pc \in {"resolve", "wait", "wait_timed"}
    /\ tasks'[t].pid = tasks[t].pid
\* C29: a task that was not launched by a restart request (a fresh run or a
\* crash recovery) never begins a Step whose persisted status is failed.
C29_FailedStepNotRetried ==
    [][\A t \in TaskIds :
          (StepTaken(t) /\ tasks[t].kind # "restart")
              => sstatus[tasks[t].pid][Cur(t)] # "failed"]_vars

\* C30: when the abort_session that follows a timed-out send fails, the Step is
\* committed failed all the same and run_step is left with a StepExecutionError;
\* once the task has stopped the Step is failed, nothing was escalated out of
\* run_fn and the Pipeline is failed.
C30_FailedAbortKeepsTimeout ==
    /\ [][\A t \in TaskIds : (tasks[t].pc = "abort" /\ tasks'[t].fault = "timeout_abort_failed") =>
             /\ sstatus'[tasks[t].pid][Cur(t)] = "failed"
             /\ tasks'[t].out = "fail"]_vars
    /\ [](\A t \in TaskIds :
             (Stopped(t) /\ tasks[t].fault = "timeout_abort_failed" /\ tasks[t].exc # "cancelled")
             => /\ sstatus[tasks[t].pid][Cur(t)] = "failed"
                /\ tasks[t].exc = "none"
                /\ pstatus[tasks[t].pid] = "failed")

\* C31: in the step in which create_session or send_message reports a backend
\* error (not a timeout) during run_step, the Step is committed failed and the
\* error leaves run_step as a StepExecutionError, which _execute_steps handles
\* (nothing else escapes); the Step is not left running once the task stopped.
C31_BackendErrorFailsStep ==
    /\ [][\A t \in TaskIds :
            (/\ tasks[t].pc \in {"resolve", "send"}
             /\ tasks'[t].pid = tasks[t].pid
             /\ tasks'[t].fault \in {"create_session", "send_message"})
            => /\ sstatus'[tasks[t].pid][Cur(t)] = "failed"
               /\ tasks'[t].exc = "none"]_vars
    /\ [](\A t \in TaskIds :
            (Stopped(t) /\ tasks[t].fault \in {"create_session", "send_message"}
                        /\ tasks[t].exc # "cancelled")
            => sstatus[tasks[t].pid][Cur(t)] # "running")

\* C32: whenever a task returns from the wait of a gate, the Approval it created
\* for that gate is approved or rejected, so no task ever takes the branch for
\* an unexpected Approval status.
C32_WakeFindsDecision ==
    /\ [][\A t \in TaskIds :
            (/\ tasks[t].pc \in {"wait", "wait_timed"}
             /\ tasks'[t].pid = tasks[t].pid
             /\ tasks'[t].pc \in {"loop", "exit"})
            => approvals[tasks[t].pid][tasks[t].tap].status \in {"approved", "rejected"}]_vars
    /\ [](\A t \in TaskIds : tasks[t].fault # "unexpected_status")

\* C33: when a decision is committed for the Approval a task is waiting on at a
\* gate with an Event it synthesized itself (none was registered), the commit
\* sets that Event, so the task wakes and the Pipeline leaves waiting_for_approval.
C33_DecisionWakesSynthesized ==
    [][\A r \in ReqIds : \A t \in TaskIds :
          (/\ reqs[r].kind = "decide"
           /\ reqs'[r].kind = "idle"
           /\ tasks[t].pid = reqs[r].pid
           /\ tasks[t].pc \in {"wait", "wait_timed"}
           /\ tasks[t].tap = reqs[r].tgt
           /\ tasks[t].wev = SynthEv(t))
          => tasks[t].wev \in evSet']_vars

\* C34: the entry of the in-flight-task map that names task t is removed only in
\* the step in which t completes, and the active-runner entry that names t only
\* by the cleanup of t itself (or with the whole process at a crash).
C34_EntriesRemovedByOwner ==
    [][\A p \in Pipes :
          /\ (pipeline_tasks[p] # NoTask /\ pipeline_tasks'[p] = NoTask)
                 => tasks'[pipeline_tasks[p]].pc \in {"dead", "unused"}
          /\ (active_runners[p] # NoTask /\ active_runners'[p] = NoTask)
                 => \/ tasks[active_runners[p]].pc = "exit"
                    \/ tasks'[active_runners[p]].pc \in {"dead", "unused"}]_vars

\* C35: an agent Step is done exactly when a Handoff row of it exists, in every
\* state (every state is a possible crash point): the status done and the
\* Handoff appear in the same step.
C35_DoneIffHandoff ==
    \A p \in Pipes : \A i \in Pos(p) :
        kinds[p][i] = AGENT => (sstatus[p][i] = "done" <=> HandoffsOf(p, i) # {})

\* C36: a Pipeline whose persisted status is done keeps that status in every
\* step, whatever operation takes it.
C36_DoneIsAbsorbing ==
    [][\A p \in Pipes : pstatus[p] = "done" => pstatus'[p] = "done"]_vars

\* C37: the done Steps of a Pipeline are a prefix of its position order: a Step
\* is done only when every Step at a lower position is done.
C37_DoneStepsArePrefix ==
    \A p \in Pipes : \A i, j \in Pos(p) :
        (i < j /\ sstatus[p][j] = "done") => sstatus[p][i] = "done"

\* C38: a Pipeline never has more than one Approval in status pending.
C38_OnePendingApproval ==
    \A p \in Pipes : Cardinality(PendingApprovals(p)) <= 1

\* C39: when a decision is committed for a Pipeline that was waiting_for_approval
\* across a process restart (no task launched by create or restart exists for
\* it), some task is suspended at the gate of that Approval and the commit sets
\* the Event it waits on, so the Pipeline leaves waiting_for_approval.
C39_DecisionAfterRestartResumes ==
    [][\A r \in ReqIds :
          (/\ reqs[r].kind = "decide"
           /\ reqs'[r].kind = "idle"
           /\ pstatus[reqs[r].pid] = "waiting_for_approval"
           /\ \A t \in TaskIds : tasks[t].pid = reqs[r].pid => tasks[t].kind = "recover")
          => \E t \in TaskIds : /\ tasks[t].pid = reqs[r].pid
                                /\ tasks[t].pc \in {"wait", "wait_timed"}
                                /\ tasks[t].tap = reqs[r].tgt
                                /\ tasks[t].wev \in evSet']_vars

\* C40: at most one Step of a Pipeline is running, and a Pipeline that is done or
\* failed and has no task left (every task of it has completed) has no Step
\* running.
C40_NoRunningStepLeft ==
    \A p \in Pipes :
        /\ Cardinality({i \in Pos(p) : sstatus[p][i] = "running"}) <= 1
        /\ (/\ pstatus[p] \in {"done", "failed"}
            /\ \A t \in TaskIds : tasks[t].pid # p)
           => \A i \in Pos(p) : sstatus[p][i] # "running"
====
